---- MODULE Spec2Model ----
(***************************************************************************)
(* Model of lib/plugins/pipeline.js: a sequential asynchronous pipeline    *)
(* executor.  `pipeline(steps)` returns an async function                  *)
(*   (input, settleAll = false, getNextInput = identity,                   *)
(*    transform = identity)                                                *)
(* that reduces over the steps with p-reduce, one step at a time.          *)
(*                                                                         *)
(* The steps and the two hooks are caller supplied.  A step is an async    *)
(* function: once invoked it is in progress until it resolves with a value *)
(* or rejects with a reason.  A caller supplied hook returns some value or *)
(* throws; the default hook is lodash `identity`, which returns its first  *)
(* argument.  Every action below is one segment of the async function      *)
(* between two suspension points (await).                                  *)
(*                                                                         *)
(* Spec is one run of an executor; FairSpec is one run whose steps and     *)
(* hooks all settle; InterleavedSpec is two runs of one executor whose     *)
(* segments alternate in any order.                                        *)
(***************************************************************************)
EXTENDS Integers, Sequences, FiniteSets, TLC

(***************************************************************************)
(* Bounds of the model.                                                    *)
(***************************************************************************)
MaxSteps == 3

\* The longest pipeline of the runs checked for termination.
MaxFairSteps == 2

\* The longest pipeline of the runs checked two at a time.
MaxInterleavedSteps == 2

(***************************************************************************)
(* JavaScript values.  Every value is a record of one shape so that any    *)
(* two values can be compared.                                             *)
(*   scalar     a truthy value that is not iterable (an Error, a number)   *)
(*   undefined  the falsy value `undefined`                                *)
(*   string     the empty string: falsy, with a Symbol.iterator method     *)
(*   iterable   a truthy value with a Symbol.iterator method, supplied by  *)
(*              a step (an array of errors, an iterable error)             *)
(*   array      the `results` array returned by the pipeline               *)
(*   aggregate  the object built by `new AggregateError(errors)`           *)
(***************************************************************************)
Scalar(i) == [kind |-> "scalar", id |-> i, elems |-> <<>>]

Undefined == [kind |-> "undefined", id |-> 0, elems |-> <<>>]

Iterable(es) == [kind |-> "iterable", id |-> 0, elems |-> es]

Array(es) == [kind |-> "array", id |-> 0, elems |-> es]

AggregateError(es) == [kind |-> "aggregate", id |-> 0, elems |-> es]

\* The empty string: a falsy value that has a Symbol.iterator method.
EmptyString == [kind |-> "string", id |-> 0, elems |-> <<>>]

E1 == Scalar(11)

E2 == Scalar(12)

\* The value given to the run as `input`.
InputVals == {Scalar(0), Scalar(3)}

\* The values a step can resolve with.
SuccessVals == {Scalar(1), Scalar(2)}

\* The reasons a step can reject with: an error, two falsy values (one of
\* them iterable), and iterables of zero, one and two errors and of one
\* nested iterable.
FailVals ==
  {E1, Undefined, EmptyString, Iterable(<<>>), Iterable(<<E1>>),
   Iterable(<<E1, E2>>), Iterable(<<Iterable(<<E2>>)>>)}

\* The values a caller supplied getNextInput can return.
NextVals == {Scalar(21), Scalar(22)}

\* The values a caller supplied transform can return.
TransformVals == {Scalar(41)}

\* The value a caller supplied hook throws.
HookErrs == {Scalar(31)}

\* The kinds of step: "opaque" is any async function, which resolves or
\* rejects with any value; "inc" is x => x + 1, "double" is x => x * 2 and
\* "reject" is an async function that throws an iterable of two errors.
StepKinds == {"opaque", "inc", "double", "reject"}

\* The step sequences an executor is built from: any number of opaque steps
\* up to the bound, and the sequence [x => x + 1, x => x * 2].
Pipelines ==
  {[k \in 1..n |-> "opaque"] : n \in 0..MaxSteps} \cup {<<"inc", "double">>}

\* The values a step of kind fn can resolve with when called with arg.
StepValues(fn, arg) ==
  CASE fn = "inc" -> {Scalar(arg.id + 1)}
    [] fn = "double" -> {Scalar(arg.id * 2)}
    [] fn = "reject" -> {}
    [] OTHER -> SuccessVals

\* The reasons a step of kind fn can reject with when called with arg.
StepReasons(fn, arg) ==
  CASE fn = "opaque" -> FailVals
    [] fn = "reject" -> {Iterable(<<E1, E2>>)}
    [] OTHER -> {}

\* The two kinds of hook: the default (lodash identity) or caller supplied.
HookKinds == {"default", "custom"}

(***************************************************************************)
(* Helpers of the language and of the libraries.                           *)
(***************************************************************************)
\* JavaScript truthiness (the left operand of && on line 41).
Truthy(v) == v.kind \notin {"undefined", "string"}

\* isFunction(result[Symbol.iterator]) on line 41.
isIterable(v) == v.kind \in {"iterable", "array", "aggregate", "string"}

\* lodash identity: returns the first argument it receives.
identity(a, b) == a

\* arr[i] with a zero-based index; out of range reads give undefined.
ArrayGet(arr, i) == IF i + 1 \in DOMAIN arr THEN arr[i + 1] ELSE Undefined

\* A variant of line 41 without the `result &&` guard.
FlattenReasonNoTruthyCheck(reason) ==
  IF isIterable(reason) THEN reason.elems ELSE <<reason>>

\* A variant of line 41 without the spread: the reason is pushed as it is.
FlattenReasonNoFlatten(reason) == <<reason>>

\* The elements of es, those that are iterable replaced by their elements.
RECURSIVE SpreadElements(_)
SpreadElements(es) ==
  IF es = <<>>
    THEN <<>>
    ELSE (IF isIterable(Head(es)) THEN Head(es).elems ELSE <<Head(es)>>)
           \o SpreadElements(Tail(es))

\* A variant of line 41 that flattens two levels of iterables.
FlattenReasonTwoLevels(reason) ==
  IF Truthy(reason) /\ isIterable(reason)
    THEN SpreadElements(reason.elems)
    ELSE <<reason>>

\* Line 41: the entries pushed into `errors` for one rejection reason.
FlattenReason(reason) ==
  IF Truthy(reason) /\ isIterable(reason) THEN reason.elems ELSE <<reason>>

\* A variant of line 53 that wraps the recorded errors whatever their number.
ThrownValueAlwaysAggregate(errs) == AggregateError(errs)

\* A variant of line 53 that always throws the first recorded error.
ThrownValueFirstOnly(errs) == ArrayGet(errs, 0)

\* Line 53: the value thrown when errors.length > 0.
ThrownValue(errs) ==
  IF Len(errs) = 1 THEN ArrayGet(errs, 0) ELSE AggregateError(errs)

\* A variant of line 55 that unwraps only a list of exactly one element.
ReturnedValueNoCollapse(res) ==
  IF Len(res) = 1 THEN ArrayGet(res, 0) ELSE Array(res)

\* Line 55: the value returned when errors is empty.
ReturnedValue(res) ==
  IF Len(res) <= 1 THEN ArrayGet(res, 0) ELSE Array(res)

\* A variant of lines 52-55 that returns the collected results whenever
\* there are some, and throws only when no step succeeded.
FinalOutcomePartialSuccess(res, errs) ==
  IF Len(errs) > 0 /\ Len(res) = 0
    THEN [status |-> "rejected", value |-> ThrownValue(errs)]
    ELSE [status |-> "resolved", value |-> ReturnedValue(res)]

\* Lines 52-55: the outcome of the run once the reduction has completed.
FinalOutcome(res, errs) ==
  IF Len(errs) > 0
    THEN [status |-> "rejected", value |-> ThrownValue(errs)]
    ELSE [status |-> "resolved", value |-> ReturnedValue(res)]

Pending == [status |-> "pending", value |-> Undefined]

Rejected(v) == [status |-> "rejected", value |-> v]

(***************************************************************************)
(* State.                                                                  *)
(***************************************************************************)
VARIABLES
  steps,          \* the number of steps the executor was built from
  stepFns,        \* the steps the executor was built from, by kind
  pc,             \* position of the run
  input,          \* run parameter `input`
  settleAll,      \* run parameter `settleAll`
  getNextInput,   \* kind of the run parameter `getNextInput`
  transform,      \* kind of the run parameter `transform`
  idx,            \* 1-based index of the step of the current iteration
  lastResult,     \* the reducer's accumulator (the carry)
  result,         \* the reducer's local `result`
  results,        \* the array `results`
  errors,         \* the array `errors`
  outcome,        \* how the promise returned by the run settled
  invoked,        \* log: step(lastResult) calls
  settled,        \* log: how each invoked step settled
  nextCalls,      \* log: getNextInput(lastResult, result) calls
  nextRets,       \* log: how each getNextInput call completed
  transformCalls, \* log: transform(value, step) calls
  transformRets,  \* log: how each transform call completed
  other           \* the variables of a second run of the executor, suspended

params == <<input, settleAll, getNextInput, transform>>

logs == <<invoked, settled, nextCalls, nextRets, transformCalls, transformRets>>

executor == <<steps, stepFns>>

vars ==
  <<steps, stepFns, pc, input, settleAll, getNextInput, transform, idx, lastResult,
    result, results, errors, outcome, invoked, settled, nextCalls, nextRets,
    transformCalls, transformRets, other>>

\* The variables that belong to one call of the run function: its
\* parameters, the locals declared on lines 27-32, its promise and the
\* calls it made.  The executor has nothing else than `steps`.
Current ==
  [pc |-> pc, input |-> input, settleAll |-> settleAll,
   getNextInput |-> getNextInput, transform |-> transform, idx |-> idx,
   lastResult |-> lastResult, result |-> result, results |-> results,
   errors |-> errors, outcome |-> outcome, invoked |-> invoked,
   settled |-> settled, nextCalls |-> nextCalls, nextRets |-> nextRets,
   transformCalls |-> transformCalls, transformRets |-> transformRets]

\* The variables of a run that has not been called yet.
IdleRun ==
  [pc |-> "idle", input |-> Undefined, settleAll |-> FALSE,
   getNextInput |-> "default", transform |-> "default", idx |-> 1,
   lastResult |-> Undefined, result |-> Undefined, results |-> <<>>,
   errors |-> <<>>, outcome |-> Pending, invoked |-> <<>>,
   settled |-> <<>>, nextCalls |-> <<>>, nextRets |-> <<>>,
   transformCalls |-> <<>>, transformRets |-> <<>>]

\* No run of the executor has been started.
RunNotStarted ==
  /\ pc = "idle"
  /\ input = Undefined
  /\ settleAll = FALSE
  /\ getNextInput = "default"
  /\ transform = "default"
  /\ idx = 1
  /\ lastResult = Undefined
  /\ result = Undefined
  /\ results = <<>>
  /\ errors = <<>>
  /\ outcome = Pending
  /\ invoked = <<>>
  /\ settled = <<>>
  /\ nextCalls = <<>>
  /\ nextRets = <<>>
  /\ transformCalls = <<>>
  /\ transformRets = <<>>
  /\ other = IdleRun

\* pipeline(steps): the executor exists, no run has been started.
Init ==
  /\ stepFns \in Pipelines
  /\ steps = Len(stepFns)
  /\ RunNotStarted

(***************************************************************************)
(* Actions.                                                                *)
(***************************************************************************)
\* Where p-reduce goes with the reducer at iteration i: the next step, or,
\* once the steps are exhausted, the code after `await pReduce(...)`.
Iterate(i) == IF i <= steps THEN "callStep" ELSE "final"

\* Lines 26-30: the run is called; accumulators are created and p-reduce
\* starts with `input` as the initial accumulator.
Run ==
  /\ pc = "idle"
  /\ \E in \in InputVals, sa \in BOOLEAN, gni \in HookKinds, tr \in HookKinds :
       /\ input' = in
       /\ settleAll' = sa
       /\ getNextInput' = gni
       /\ transform' = tr
       /\ lastResult' = in
  /\ results' = <<>>
  /\ errors' = <<>>
  /\ idx' = 1
  /\ pc' = Iterate(1)
  /\ UNCHANGED <<executor, other, result, outcome, logs>>

\* A variant of lines 29-44 that calls every remaining step at once, as a
\* map over the steps would, instead of one step per iteration.
CallStepAllAtOnce ==
  /\ pc = "callStep"
  /\ invoked' = invoked \o [j \in 1..(steps - idx + 1) |->
                              [step |-> idx + j - 1, arg |-> lastResult]]
  /\ pc' = "awaitStep"
  /\ UNCHANGED <<executor, other, params, idx, lastResult, result, results, errors,
                 outcome, settled, nextCalls, nextRets, transformCalls,
                 transformRets>>

\* Lines 36 and 44: step(lastResult) is called and the reducer suspends on
\* the promise it returned.
CallStep ==
  /\ pc = "callStep"
  /\ invoked' = Append(invoked, [step |-> idx, arg |-> lastResult])
  /\ pc' = "awaitStep"
  /\ UNCHANGED <<executor, other, params, idx, lastResult, result, results, errors,
                 outcome, settled, nextCalls, nextRets, transformCalls,
                 transformRets>>

\* A variant of line 48 that passes the run's input instead of the carry.
CallNextWithInput(r) ==
  /\ nextCalls' = Append(nextCalls, [step |-> idx, last |-> input, cur |-> r])
  /\ pc' = "awaitNext"

\* Line 48: getNextInput(lastResult, result) is called, p-reduce awaits it.
CallNext(r) ==
  /\ nextCalls' = Append(nextCalls, [step |-> idx, last |-> lastResult, cur |-> r])
  /\ pc' = "awaitNext"

\* A variant of lines 36-42 without pReflect: a rejection of the step is not
\* observed but propagates, and the run rejects with the reason.
SettleAllStepPropagates ==
  /\ pc = "awaitStep"
  /\ settleAll
  /\ \E isFulfilled \in BOOLEAN :
       \E v \in (IF isFulfilled THEN StepValues(stepFns[idx], lastResult)
                              ELSE StepReasons(stepFns[idx], lastResult)) :
         /\ settled' = Append(settled, [step |-> idx, ok |-> isFulfilled, value |-> v])
         /\ IF isFulfilled
              THEN /\ result' = v
                   /\ results' = Append(results, v)
                   /\ CallNext(v)
                   /\ UNCHANGED outcome
              ELSE /\ outcome' = Rejected(v)
                   /\ pc' = "done"
                   /\ UNCHANGED <<result, results, nextCalls>>
  /\ UNCHANGED <<executor, other, params, idx, lastResult, errors, invoked, nextRets,
                 transformCalls, transformRets>>

\* Lines 36-42 and 48, settleAll: the step settled; pReflect reports how, the
\* value or the flattened reason is recorded, getNextInput is called.
SettleAllStep ==
  /\ pc = "awaitStep"
  /\ settleAll
  /\ \E isFulfilled \in BOOLEAN :
       \E v \in (IF isFulfilled THEN StepValues(stepFns[idx], lastResult)
                              ELSE StepReasons(stepFns[idx], lastResult)) :
         /\ settled' = Append(settled, [step |-> idx, ok |-> isFulfilled, value |-> v])
         /\ result' = v
         /\ IF isFulfilled
              THEN results' = Append(results, v) /\ UNCHANGED errors
              ELSE errors' = errors \o FlattenReason(v) /\ UNCHANGED results
         /\ CallNext(v)
  /\ UNCHANGED <<executor, other, params, idx, lastResult, outcome, invoked, nextRets,
                 transformCalls, transformRets>>

\* Line 44, fail-fast: the step resolved; transform(value, step) is called
\* and awaited.
FailFastStepResolve ==
  /\ pc = "awaitStep"
  /\ ~settleAll
  /\ \E v \in StepValues(stepFns[idx], lastResult) :
       /\ settled' = Append(settled, [step |-> idx, ok |-> TRUE, value |-> v])
       /\ transformCalls' = Append(transformCalls, [raw |-> v, step |-> idx])
  /\ pc' = "awaitTransform"
  /\ UNCHANGED <<executor, other, params, idx, lastResult, result, results, errors,
                 outcome, invoked, nextCalls, nextRets, transformRets>>

\* A variant of line 44 that records the rejection and goes on with the
\* next step instead of propagating it.
FailFastStepRejectContinues ==
  /\ pc = "awaitStep"
  /\ ~settleAll
  /\ \E f \in StepReasons(stepFns[idx], lastResult) :
       /\ settled' = Append(settled, [step |-> idx, ok |-> FALSE, value |-> f])
       /\ errors' = Append(errors, f)
  /\ idx' = idx + 1
  /\ pc' = Iterate(idx + 1)
  /\ UNCHANGED <<executor, other, params, lastResult, result, results, outcome,
                 invoked, nextCalls, nextRets, transformCalls, transformRets>>

\* Line 44, fail-fast: the step rejected; the reducer, p-reduce and the run
\* reject with the reason.
FailFastStepReject ==
  /\ pc = "awaitStep"
  /\ ~settleAll
  /\ \E f \in StepReasons(stepFns[idx], lastResult) :
       /\ settled' = Append(settled, [step |-> idx, ok |-> FALSE, value |-> f])
       /\ outcome' = Rejected(f)
  /\ pc' = "done"
  /\ UNCHANGED <<executor, other, params, idx, lastResult, result, results, errors,
                 invoked, nextCalls, nextRets, transformCalls, transformRets>>

\* A variant of lines 44-45 that stores the step's raw value instead of the
\* value transform returned.
TransformReturnStoresRaw ==
  /\ pc = "awaitTransform"
  /\ LET call == transformCalls[Len(transformCalls)] IN
     \E r \in (IF transform = "default"
                 THEN {identity(call.raw, call.step)}
                 ELSE TransformVals) :
       /\ transformRets' = Append(transformRets, [ok |-> TRUE, value |-> r])
       /\ result' = call.raw
       /\ results' = Append(results, call.raw)
       /\ CallNext(call.raw)
  /\ UNCHANGED <<executor, other, params, idx, lastResult, errors, outcome, invoked,
                 settled, nextRets, transformCalls>>

\* Lines 44-48, fail-fast: transform returned; its value is stored in
\* `results` and getNextInput is called.
TransformReturn ==
  /\ pc = "awaitTransform"
  /\ LET call == transformCalls[Len(transformCalls)] IN
     \E r \in (IF transform = "default"
                 THEN {identity(call.raw, call.step)}
                 ELSE TransformVals) :
       /\ transformRets' = Append(transformRets, [ok |-> TRUE, value |-> r])
       /\ result' = r
       /\ results' = Append(results, r)
       /\ CallNext(r)
  /\ UNCHANGED <<executor, other, params, idx, lastResult, errors, outcome, invoked,
                 settled, nextRets, transformCalls>>

\* Line 44, fail-fast: a caller supplied transform threw (or rejected); the
\* run rejects with what it threw.
TransformThrow ==
  /\ pc = "awaitTransform"
  /\ transform = "custom"
  /\ \E e \in HookErrs :
       /\ transformRets' = Append(transformRets, [ok |-> FALSE, value |-> e])
       /\ outcome' = Rejected(e)
  /\ pc' = "done"
  /\ UNCHANGED <<executor, other, params, idx, lastResult, result, results, errors,
                 invoked, settled, nextCalls, nextRets, transformCalls>>

\* A variant of lines 26 and 48 whose default getNextInput returns the
\* current result instead of the previous carry.
NextReturnDefaultPassesResult ==
  /\ pc = "awaitNext"
  /\ LET call == nextCalls[Len(nextCalls)] IN
     \E r \in (IF getNextInput = "default" THEN {call.cur} ELSE NextVals) :
       /\ nextRets' = Append(nextRets, [ok |-> TRUE, value |-> r])
       /\ lastResult' = r
  /\ idx' = idx + 1
  /\ pc' = Iterate(idx + 1)
  /\ UNCHANGED <<executor, other, params, result, results, errors, outcome, invoked,
                 settled, nextCalls, transformCalls, transformRets>>

\* Lines 48 and 29-31: getNextInput returned; its value is the accumulator
\* of the next iteration.
NextReturn ==
  /\ pc = "awaitNext"
  /\ LET call == nextCalls[Len(nextCalls)] IN
     \E r \in (IF getNextInput = "default"
                 THEN {identity(call.last, call.cur)}
                 ELSE NextVals) :
       /\ nextRets' = Append(nextRets, [ok |-> TRUE, value |-> r])
       /\ lastResult' = r
  /\ idx' = idx + 1
  /\ pc' = Iterate(idx + 1)
  /\ UNCHANGED <<executor, other, params, result, results, errors, outcome, invoked,
                 settled, nextCalls, transformCalls, transformRets>>

\* A variant of line 48 that treats a failure of getNextInput like the
\* failure of a step in settle-all mode: it is collected and the reduction
\* goes on with the carry unchanged.
NextThrowCollected ==
  /\ pc = "awaitNext"
  /\ getNextInput = "custom"
  /\ \E e \in HookErrs :
       /\ nextRets' = Append(nextRets, [ok |-> FALSE, value |-> e])
       /\ IF settleAll
            THEN /\ errors' = Append(errors, e)
                 /\ idx' = idx + 1
                 /\ pc' = Iterate(idx + 1)
                 /\ UNCHANGED outcome
            ELSE /\ outcome' = Rejected(e)
                 /\ pc' = "done"
                 /\ UNCHANGED <<idx, errors>>
  /\ UNCHANGED <<executor, other, params, lastResult, result, results,
                 invoked, settled, nextCalls, transformCalls, transformRets>>

\* Line 48: a caller supplied getNextInput threw (or rejected); the reducer,
\* p-reduce and the run reject with what it threw.
NextThrow ==
  /\ pc = "awaitNext"
  /\ getNextInput = "custom"
  /\ \E e \in HookErrs :
       /\ nextRets' = Append(nextRets, [ok |-> FALSE, value |-> e])
       /\ outcome' = Rejected(e)
  /\ pc' = "done"
  /\ UNCHANGED <<executor, other, params, idx, lastResult, result, results, errors,
                 invoked, settled, nextCalls, transformCalls, transformRets>>

\* Lines 52-55: the reduction completed; the run throws the recorded errors
\* or returns the recorded results.
Finish ==
  /\ pc = "final"
  /\ outcome' = FinalOutcome(results, errors)
  /\ pc' = "done"
  /\ UNCHANGED <<executor, other, params, idx, lastResult, result, results, errors, logs>>

\* A timeout the code does not have: a step in progress is given up and the
\* run rejects.
StepTimeout ==
  /\ pc = "awaitStep"
  /\ \E e \in HookErrs : outcome' = Rejected(e)
  /\ pc' = "done"
  /\ UNCHANGED <<executor, other, params, idx, lastResult, result, results, errors,
                 logs>>

\* A variant of the executor that gives up steps in progress.
NextWithTimeout ==
  \/ Run
  \/ CallStep
  \/ SettleAllStep
  \/ FailFastStepResolve
  \/ FailFastStepReject
  \/ TransformReturn
  \/ TransformThrow
  \/ NextReturn
  \/ NextThrow
  \/ Finish
  \/ StepTimeout

Next ==
  \/ Run
  \/ CallStep
  \/ SettleAllStep
  \/ FailFastStepResolve
  \/ FailFastStepReject
  \/ TransformReturn
  \/ TransformThrow
  \/ NextReturn
  \/ NextThrow
  \/ Finish

Spec == Init /\ [][Next]_vars

\* The run under the hypothesis that every step and hook that was called
\* eventually settles, and that the event loop resumes the async function
\* whenever what it awaits has settled: no enabled segment waits forever.
\* The executors used for two runs at a time: the steps x => x + 1 and
\* async () => { throw [e1, e2] } in turn, up to the bound.
InterleavedPipelines ==
  {[k \in 1..n |-> IF k % 2 = 1 THEN "inc" ELSE "reject"] :
     n \in 0..MaxInterleavedSteps}

InterleavedInit ==
  /\ stepFns \in InterleavedPipelines
  /\ steps = Len(stepFns)
  /\ RunNotStarted

\* A variant of Switch for accumulators declared once per executor (outside
\* the run function): `results` and `errors` are the same arrays for both
\* runs.
SwitchSharedAccumulators ==
  /\ other' = Current
  /\ pc' = other.pc
  /\ input' = other.input
  /\ settleAll' = other.settleAll
  /\ getNextInput' = other.getNextInput
  /\ transform' = other.transform
  /\ idx' = other.idx
  /\ lastResult' = other.lastResult
  /\ result' = other.result
  /\ invoked' = other.invoked
  /\ settled' = other.settled
  /\ nextCalls' = other.nextCalls
  /\ nextRets' = other.nextRets
  /\ transformCalls' = other.transformCalls
  /\ transformRets' = other.transformRets
  /\ outcome' = other.outcome
  /\ UNCHANGED <<executor, results, errors>>

\* Lines 26-32: the run function is suspended at an await (or has not been
\* called, or has returned) and the event loop goes on with the other run of
\* the same executor.  Each call has its own parameters, locals and promise;
\* the two calls have `steps` in common.
Switch ==
  /\ other' = Current
  /\ pc' = other.pc
  /\ input' = other.input
  /\ settleAll' = other.settleAll
  /\ getNextInput' = other.getNextInput
  /\ transform' = other.transform
  /\ idx' = other.idx
  /\ lastResult' = other.lastResult
  /\ result' = other.result
  /\ results' = other.results
  /\ errors' = other.errors
  /\ outcome' = other.outcome
  /\ invoked' = other.invoked
  /\ settled' = other.settled
  /\ nextCalls' = other.nextCalls
  /\ nextRets' = other.nextRets
  /\ transformCalls' = other.transformCalls
  /\ transformRets' = other.transformRets
  /\ UNCHANGED executor

\* Two runs of one executor, their segments interleaved in any order.
InterleavedNext ==
  \/ Run
  \/ CallStep
  \/ SettleAllStep
  \/ FailFastStepResolve
  \/ FailFastStepReject
  \/ TransformReturn
  \/ TransformThrow
  \/ NextReturn
  \/ NextThrow
  \/ Finish
  \/ Switch

InterleavedSpec == InterleavedInit /\ [][InterleavedNext]_vars

FairInit == Init /\ steps <= MaxFairSteps

FairSpec == FairInit /\ [][Next]_vars /\ WF_vars(Next)

(***************************************************************************)
(* Properties.                                                             *)
(***************************************************************************)
\* The steps were invoked in declared order, each at most once.
InvokedInOrder == \A j \in 1..Len(invoked) : invoked[j].step = j

\* No call of a hook has failed so far.
NoHookFailed ==
  /\ \A j \in 1..Len(nextRets) : nextRets[j].ok
  /\ \A j \in 1..Len(transformRets) : transformRets[j].ok

\* The reduction over the steps ran to its end (the code after
\* `await pReduce(...)` was reached) and the run has settled.
ReductionCompleted ==
  /\ pc = "done"
  /\ Len(nextRets) = steps
  /\ \A j \in 1..Len(nextRets) : nextRets[j].ok

\* The value of step k that the rest of the iteration observes: the value
\* transform returned in fail-fast mode, the raw value or reason in
\* settle-all mode.
ObservedValue(k) ==
  IF settleAll THEN settled[k].value ELSE transformRets[k].value

\* The steps that have been fully processed: settled in settle-all mode,
\* resolved and transformed in fail-fast mode.
CompletedSteps ==
  IF settleAll
    THEN Len(settled)
    ELSE Cardinality({j \in 1..Len(transformRets) : transformRets[j].ok})

\* C1: in fail-fast mode, if step k is the first step that fails, exactly
\* the steps 1..k have been invoked, each once and in order, none after k
\* is ever invoked, and the run has rejected with the failure value of step
\* k itself.
C1_FailFastStopsAtFirstFailure ==
  \A k \in 1..Len(settled) :
    (~settleAll /\ ~settled[k].ok) =>
      /\ settled[k].step = k
      /\ Len(settled) = k
      /\ Len(invoked) = k
      /\ InvokedInOrder
      /\ pc = "done"
      /\ outcome = [status |-> "rejected", value |-> settled[k].value]

C1_Witness ==
  /\ ~settleAll
  /\ steps = 3
  /\ Len(settled) = 2
  /\ settled[1].ok
  /\ ~settled[2].ok
  /\ settled[2].value = Iterable(<<E1, E2>>)
  /\ outcome.status = "rejected"

C3_RejectsWhenAStepFailed ==
  (pc = "done" /\ \E k \in 1..Len(settled) : ~settled[k].ok) =>
    outcome.status = "rejected"

C8_Original ==
  getNextInput = "default" =>
    \A k \in 2..Len(invoked) : invoked[k].arg = ObservedValue(k - 1)

\* C8 as amended: with the default getNextInput (lodash identity, which
\* returns its first argument) the hook passes the previous carry through
\* unchanged and ignores the current step's result: every step receives the
\* original input of the run.
C8_DefaultKeepsInput ==
  getNextInput = "default" =>
    /\ \A k \in 1..Len(invoked) : invoked[k].arg = input
    /\ \A j \in 1..Len(nextRets) :
         nextRets[j].ok /\ nextRets[j].value = nextCalls[j].last

C8_Witness ==
  /\ getNextInput = "default"
  /\ Len(invoked) = 3
  /\ settled[1].ok
  /\ settled[1].value # input
  /\ invoked[2].arg = input
  /\ invoked[3].arg = input

\* C9: step 1 is invoked with the input of the run; every later step k is
\* invoked with the value returned by the call of getNextInput made after
\* step k-1, whose arguments were the carry given to step k-1 and the
\* observed value of step k-1 (the transformed result in fail-fast mode,
\* the raw value or raw reason in settle-all mode); getNextInput is called
\* once after each completed step.
C9_CarryThreading ==
  /\ Len(invoked) >= 1 => invoked[1].arg = input
  /\ \A k \in 2..Len(invoked) :
       /\ Len(nextRets) >= k - 1
       /\ nextRets[k - 1].ok
       /\ invoked[k].arg = nextRets[k - 1].value
  /\ Len(nextCalls) = CompletedSteps
  /\ \A j \in 1..Len(nextCalls) :
       /\ nextCalls[j].step = j
       /\ nextCalls[j].last = invoked[j].arg
       /\ nextCalls[j].cur = ObservedValue(j)

C9_Witness ==
  /\ settleAll
  /\ getNextInput = "custom"
  /\ Len(invoked) = 3
  /\ ~settled[1].ok
  /\ settled[1].value = Iterable(<<E1, E2>>)
  /\ nextCalls[1].cur = Iterable(<<E1, E2>>)
  /\ invoked[2].arg # input
  /\ invoked[3].arg # invoked[2].arg

C11_ScenarioIncDouble ==
  (/\ stepFns = <<"inc", "double">>
   /\ pc = "done"
   /\ input = Scalar(3)
   /\ ~settleAll
   /\ getNextInput = "default"
   /\ transform = "default") =>
    /\ results = <<Scalar(4), Scalar(6)>>
    /\ outcome = [status |-> "resolved",
                  value |-> Array(<<Scalar(4), Scalar(6)>>)]

C11_Witness ==
  /\ stepFns = <<"inc", "double">>
  /\ pc = "done"
  /\ input = Scalar(3)
  /\ ~settleAll
  /\ getNextInput = "default"
  /\ transform = "default"
  /\ invoked = <<[step |-> 1, arg |-> Scalar(3)], [step |-> 2, arg |-> Scalar(3)]>>
  /\ outcome.status = "resolved"

\* The entries one failure value stands for in the failure list: its
\* elements when it is a truthy iterable, itself otherwise.
EntriesOf(v) == IF v.kind = "iterable" THEN v.elems ELSE <<v>>

\* The entries the failures of the first k settled steps stand for, in step
\* order.
RECURSIVE FailureEntries(_)
FailureEntries(k) ==
  IF k = 0
    THEN <<>>
    ELSE FailureEntries(k - 1)
           \o (IF settled[k].ok THEN <<>> ELSE EntriesOf(settled[k].value))

\* The steps that resolved, among those settled so far.
ResolvedSteps == {k \in 1..Len(settled) : settled[k].ok}

\* The steps that rejected, among those settled so far.
RejectedSteps == {k \in 1..Len(settled) : ~settled[k].ok}

\* C12 as stated: at the end of a settle-all run the number of entries of
\* the success list plus the number of entries of the failure list is the
\* number of steps, whatever the outcomes and the shapes of the failures.
C12_Original ==
  (settleAll /\ ReductionCompleted) => Len(results) + Len(errors) = steps

\* C12 as amended: in a settle-all run the success list holds one entry for
\* each step that resolved and the failure list holds, for each step that
\* rejected, one entry when its failure value is falsy or not iterable and
\* as many entries as the value has elements when it is a truthy iterable;
\* at the end of the run the two counts add up to the number of steps when
\* every failure value stands for exactly one entry.
C12_AccumulatorCount ==
  settleAll =>
    /\ Len(results) = Cardinality(ResolvedSteps)
    /\ Len(errors) = Len(FailureEntries(Len(settled)))
    /\ (/\ ReductionCompleted
        /\ \A k \in RejectedSteps : Len(EntriesOf(settled[k].value)) = 1) =>
         Len(results) + Len(errors) = steps

C12_Witness ==
  /\ settleAll
  /\ ReductionCompleted
  /\ steps = 3
  /\ settled[1].ok
  /\ settled[2].value = EmptyString
  /\ settled[3].value = Iterable(<<E1>>)
  /\ Len(results) = 1
  /\ Len(errors) = 2

C14_FlattenOneLevel ==
  settleAll => errors = FailureEntries(Len(settled))

C14_Witness ==
  /\ settleAll
  /\ Len(settled) = 3
  /\ settled[1].value = Iterable(<<Iterable(<<E2>>)>>)
  /\ settled[2].value = EmptyString
  /\ settled[3].value = Iterable(<<E1, E2>>)
  /\ errors = <<Iterable(<<E2>>), EmptyString, E1, E2>>

\* C15: within one run at most one step is in progress at any time, and no
\* hook call is pending while a step is in progress; step k+1 is invoked
\* only once step k has settled, its value or failure has been recorded,
\* and the hooks called for step k (transform in fail-fast mode, then
\* getNextInput) have returned.
C15_StrictSequencing ==
  /\ Len(invoked) - Len(settled) \in {0, 1}
  /\ Len(invoked) = Len(settled) + 1 <=> pc = "awaitStep"
  /\ pc = "awaitStep" =>
       /\ Len(nextRets) = Len(nextCalls)
       /\ Len(transformRets) = Len(transformCalls)
  /\ \A k \in 1..(Len(invoked) - 1) :
       /\ Len(settled) >= k
       /\ settled[k].step = k
       /\ IF settleAll
            THEN Len(results) + Len(errors) >=
                   Cardinality({j \in ResolvedSteps : j <= k})
                     + Len(FailureEntries(k))
            ELSE /\ Len(transformRets) >= k
                 /\ transformRets[k].ok
                 /\ Len(results) >= k
       /\ Len(nextRets) >= k
       /\ nextRets[k].ok

C15_Witness ==
  /\ pc = "awaitStep"
  /\ settleAll
  /\ getNextInput = "custom"
  /\ Len(invoked) = 3
  /\ Len(settled) = 2
  /\ ~settled[1].ok
  /\ settled[2].ok
  /\ Len(nextRets) = 2

\* C16: if every step and hook that is called eventually settles, a run
\* that was started eventually completes, and it completes with one outcome
\* that never changes afterwards; while a step is in progress nothing
\* happens in the run but the settling of that step, so that a step that
\* never settles leaves the run pending for ever, with no later step or hook
\* called.
C16_TerminationAndStalling ==
  /\ (pc # "idle") ~> (pc = "done")
  /\ [](pc = "done" <=> outcome.status # "pending")
  /\ [][/\ outcome.status # "pending" => outcome' = outcome
        /\ pc = "awaitStep" =>
             /\ Len(settled') = Len(settled) + 1
             /\ settled'[Len(settled')].step = idx]_vars

C16_Witness ==
  /\ pc = "done"
  /\ steps = 2
  /\ Len(settled) = 2
  /\ outcome.status = "resolved"
  /\ transform = "custom"
  /\ getNextInput = "custom"

\* The values of the entries of a log of completions that are ok, in order.
RECURSIVE OkValues(_)
OkValues(log) ==
  IF log = <<>>
    THEN <<>>
    ELSE (IF Head(log).ok THEN <<Head(log).value>> ELSE <<>>)
           \o OkValues(Tail(log))

\* The failure entries that the rejections of a log of step settlements
\* stand for, in order.
RECURSIVE FailureEntriesOf(_)
FailureEntriesOf(log) ==
  IF log = <<>>
    THEN <<>>
    ELSE (IF Head(log).ok THEN <<>> ELSE EntriesOf(Head(log).value))
           \o FailureEntriesOf(Tail(log))

\* The completions of a log that are failures.
Failures(log) == {j \in 1..Len(log) : ~log[j].ok}

\* What the success list, the failure list, the carry and the outcome of
\* the run with variables c are when computed from the calls of that run
\* alone.
AloneResults(c) ==
  IF c.settleAll THEN OkValues(c.settled) ELSE OkValues(c.transformRets)

AloneErrors(c) == IF c.settleAll THEN FailureEntriesOf(c.settled) ELSE <<>>

AloneCarry(c) ==
  LET rets == OkValues(c.nextRets) IN
  IF rets = <<>> THEN c.input ELSE rets[Len(rets)]

AloneOutcome(c) ==
  CASE c.pc # "done" -> Pending
    [] c.pc = "done" /\ Failures(c.nextRets) # {} ->
         Rejected(c.nextRets[Len(c.nextRets)].value)
    [] c.pc = "done" /\ Failures(c.nextRets) = {}
         /\ Failures(c.transformRets) # {} ->
         Rejected(c.transformRets[Len(c.transformRets)].value)
    [] c.pc = "done" /\ Failures(c.nextRets) = {}
         /\ Failures(c.transformRets) = {}
         /\ ~c.settleAll /\ Failures(c.settled) # {} ->
         Rejected(c.settled[Len(c.settled)].value)
    [] OTHER -> FinalOutcome(AloneResults(c), AloneErrors(c))

RunAlone(c) ==
  /\ c.results = AloneResults(c)
  /\ c.errors = AloneErrors(c)
  /\ c.lastResult = AloneCarry(c)
  /\ c.outcome = AloneOutcome(c)

\* C17: with two runs of one executor, one after the other or their
\* segments interleaved, the success list, the failure list, the carry and
\* the outcome of each run are those its own step and hook calls give,
\* whatever the other run did; a segment of one run leaves the variables of
\* the other run as they are; and no run changes the step sequence of the
\* executor.
C17_RunIsolation ==
  /\ [](RunAlone(Current) /\ RunAlone(other))
  /\ [][/\ executor' = executor
        /\ \/ other' = other
           \/ other' = Current /\ Current' = other]_vars

C17_Witness ==
  /\ steps = 2
  /\ settleAll
  /\ pc = "awaitStep"
  /\ Len(results) = 1
  /\ other.pc = "awaitNext"
  /\ other.settleAll
  /\ other.input # input
  /\ Len(other.results) = 1
  /\ Len(other.errors) = 2
  /\ other.results # results

\* C18: when a call of getNextInput (in either mode) or of transform (in
\* fail-fast mode) fails, the run rejects at once with that failure itself;
\* the failure is not put in the failure list, which holds the failures of
\* the steps only, and no step after the one the hook was called for is
\* invoked.
C18_HookFailureFailsFast ==
  /\ \A j \in Failures(nextRets) :
       /\ j = Len(nextRets)
       /\ Len(invoked) = j
       /\ Len(settled) = j
       /\ pc = "done"
       /\ outcome = [status |-> "rejected", value |-> nextRets[j].value]
       /\ errors = (IF settleAll THEN FailureEntries(j) ELSE <<>>)
       /\ \A i \in 1..Len(errors) : errors[i] # nextRets[j].value
  /\ \A j \in Failures(transformRets) :
       /\ ~settleAll
       /\ j = Len(transformRets)
       /\ Len(invoked) = j
       /\ Len(nextCalls) = j - 1
       /\ Len(results) = j - 1
       /\ pc = "done"
       /\ outcome = [status |-> "rejected", value |-> transformRets[j].value]
       /\ errors = <<>>

C18_Witness ==
  /\ settleAll
  /\ steps = 3
  /\ Len(nextRets) = 2
  /\ ~nextRets[2].ok
  /\ Len(errors) = 3
  /\ Len(invoked) = 2
  /\ outcome = [status |-> "rejected", value |-> nextRets[2].value]

\* C19: in settle-all mode, a run that has ended with at least one failure
\* recorded has rejected, with a value that is none of the collected
\* success values nor their list; a run that has resolved has an empty
\* failure list.
C19_OutcomeExclusive ==
  (settleAll /\ pc = "done") =>
    /\ Len(errors) > 0 =>
         /\ outcome.status = "rejected"
         /\ outcome.value # Array(results)
         /\ \A i \in 1..Len(results) : outcome.value # results[i]
    /\ outcome.status = "resolved" => errors = <<>>

C19_Witness ==
  /\ settleAll
  /\ ReductionCompleted
  /\ steps = 3
  /\ Len(results) = 2
  /\ Len(errors) = 1
  /\ outcome = [status |-> "rejected", value |-> errors[1]]

====
